---- MODULE Spec2Model ----
(***************************************************************************)
(* redCorn: a distributed cron task manager.  Every node of a cluster runs *)
(* its own timer engine; each firing of a task runs the guarded execution  *)
(* wrapper executeDistributedTask, which takes a lease on                  *)
(* LockCfg.Prefix + taskName through a Redis-hosted mutex, runs the task   *)
(* and releases the lease in a deferred call.                              *)
(*                                                                         *)
(* The wrapper (redCorn.go) is modelled step by step.  The mutex and the   *)
(* lock store it talks to are libraries (go-redsync over Redis); their     *)
(* behaviour is the contract of the design specification, section 4.2:     *)
(* set-if-absent-with-expiry and delete-if-owner on a single store.        *)
(*                                                                         *)
(* Spec, SpecPair and SpecLive run the wrappers of a cluster whose         *)
(* managers have their entries and are started (SpecLive with crashes of   *)
(* nodes and a clock that keeps advancing).  SpecMgr drives one manager    *)
(* through AddTask, Start and Stop; SpecReg drives a TaskScheduler and     *)
(* AddScheduler.  The timer engine (robfig/cron) is a library as well: its *)
(* parser rejects a malformed expression at AddFunc, and the context its   *)
(* Stop returns is done when the jobs it started have returned.            *)
(***************************************************************************)
EXTENDS Integers, Sequences, FiniteSets, TLC

\* ------------------------------------------------------------------ bounds

\* Entries one timer engine is given in one run.
MaxEntries == 2

\* Register calls for one name in one run.
MaxRegs == 2

\* Firing instants of the shared logical schedule that every node dispatches.
MaxFirings == 2

\* Wrapper invocations the timer engines dispatch in one run, cluster-wide.
MaxInvocations == 2

\* The lease clock runs from 0 to MaxTime.
MaxTime == 3

\* cfg.LockCfg.Expiry, the lease TTL, in clock ticks.
Expiry == 2

\* ------------------------------------------------------------ the cluster

Nodes == {"A", "B"}

TaskNames == {"sync", "mail"}

Firings == 1 .. MaxFirings

\* The positions of the entries of a timer engine.
Slots == 1 .. MaxEntries

\* One firing instant on one node.
Dispatches == Nodes \X Firings

\* One wrapper invocation: node n running, at firing k, the wrappedTask of
\* the entry at position x.
Ids == Nodes \X Firings \X Slots

\* cfg.LockCfg.Prefix
Prefix == "myapp:lock:"

\* lockName := dtm.cfg.LockCfg.Prefix + taskName
LockName(taskName) == Prefix \o taskName

Keys == {LockName(t) : t \in TaskNames}

\* The value stored under a free key.
NoToken == <<"none", 0>>

VARIABLES
    schedule,   \* schedule[k]: the task whose cron entry is due at firing k
    now,        \* the clock of the lock store
    store,      \* store[key] = [val |-> token or NoToken, exp |-> expiry time]
    inv,        \* inv[i]: the state of wrapper invocation i
    mgr,        \* mgr[n]: the DistributedTaskManager of node n
    tasks,      \* the tasks map of a TaskScheduler
    lastReg,    \* lastReg[name]: the arguments of the last Register of name
    ret         \* what the last call of the manager or the scheduler returned

vars == <<schedule, now, store, inv, mgr, tasks, lastReg, ret>>

\* The manager, the scheduler and the record of their calls.
mgrVars == <<mgr, tasks, lastReg, ret>>

\* ------------------------------------------------------------- invocation

\* A wrappedTask that the timer engine has not dispatched yet.
\*   pc        where the invocation is: idle, acquire, callback, unlock,
\*             returned, or panicked (the panic of the task left the wrapper)
\*   err       the error of mutex.TryLock()
\*   until     the time the lease is valid to, 0 once released or expired
\*   ok, uerr  the result of mutex.Unlock()
\*   seen      the value the release found under the key
\*   tries, unlocks, runs   calls of TryLock, of Unlock and of the task
\*   done      the task has finished
Fresh ==
    [pc |-> "idle", err |-> "none", until |-> 0, panicking |-> FALSE,
     ok |-> FALSE, uerr |-> "none", seen |-> NoToken, tries |-> 0,
     unlocks |-> 0, runs |-> 0, done |-> FALSE]

\* The task and the lock name of invocation i.
TaskOf(i) == schedule[i[2]]

KeyOf(i) == LockName(TaskOf(i))

\* The random value the mutex of invocation i generates for its one attempt.
TokenOf(i) == i

\* ------------------------------------------------- lock store and mutex

\* The key holds no value (expired values are purged as the clock advances).
KeyFree(k) == store[k].val = NoToken

\* A store whose set does not look at the key: a plain SET.
SetAccepts(k) == TRUE

\* "set key=token with expiry=TTL only if key absent": is the set accepted?
SetNXAccepts(k) == KeyFree(k)

\* The store after an accepted set of token v under key k.
StoreAfterSet(k, v) == [store EXCEPT ![k] = [val |-> v, exp |-> now + Expiry]]

\* "check that the stored value equals the caller's token"
TokenMatches(k, v) == store[k].val = v

\* A release that deletes the key whatever it holds: a plain DEL.
StoreAfterDelete(k, v) == [store EXCEPT ![k] = [val |-> NoToken, exp |-> 0]]

\* "... and, if so, delete it", as one atomic conditional operation.
StoreAfterRelease(k, v) ==
    IF TokenMatches(k, v)
    THEN [store EXCEPT ![k] = [val |-> NoToken, exp |-> 0]]
    ELSE store

\* The error of the single acquire attempt of mutex.TryLock(): nil when the
\* set is accepted, ErrFailed when the key is taken, a store error when the
\* store cannot be reached.
MutexTryLock(k, reachable) ==
    IF ~reachable THEN "RedisError"
    ELSE IF SetNXAccepts(k) THEN "nil"
    ELSE "ErrFailed"

\* The (ok, err) pair of mutex.Unlock(): released, already expired (the key
\* is absent or holds another token), or a store error.
MutexUnlock(k, v, reachable) ==
    IF ~reachable THEN [ok |-> FALSE, err |-> "RedisError"]
    ELSE IF TokenMatches(k, v) THEN [ok |-> TRUE, err |-> "nil"]
    ELSE [ok |-> FALSE, err |-> "ErrLockAlreadyExpired"]

\* ------------------------------------------- the wrapper's classification

\* A wrapper that takes every error of TryLock for "is running".
AcquireOutcomeAllContended(err) ==
    IF err = "nil" THEN "acquired" ELSE "contended"

\* if err := mutex.TryLock(); err != nil { if errors.Is(err, ErrFailed) ...
AcquireOutcome(err) ==
    IF err = "nil" THEN "acquired"
    ELSE IF err = "ErrFailed" THEN "contended"
    ELSE "storeUnavailable"

\* The level the wrapper logs the acquire result at.
AcquireLogLevel(err) ==
    IF err = "nil" THEN "info"
    ELSE IF err = "ErrFailed" THEN "info"
    ELSE "error"

\* A wrapper that only tests the release error for ErrLockAlreadyExpired and
\* takes every other result for a release.
ReleaseOutcomeOnlyExpiredTested(ok, err) ==
    IF err = "ErrLockAlreadyExpired" THEN "alreadyExpired" ELSE "released"

\* A wrapper that tests the release error against the sentinel of acquire.
ReleaseOutcomeWrongSentinel(ok, err) ==
    IF ~ok \/ err # "nil"
    THEN IF err = "ErrFailed" THEN "alreadyExpired" ELSE "releaseFailed"
    ELSE "released"

\* if ok, err := mutex.Unlock(); !ok || err != nil { if errors.Is(err,
\* ErrLockAlreadyExpired) ... } else ... } else ...
ReleaseOutcome(ok, err) ==
    IF ~ok \/ err # "nil"
    THEN IF err = "ErrLockAlreadyExpired" THEN "alreadyExpired"
         ELSE "releaseFailed"
    ELSE "released"

\* A wrapper that logs every release that did not succeed as an error.
ReleaseLogLevelAllErrors(ok, err) ==
    IF ~ok \/ err # "nil" THEN "error" ELSE "info"

\* The level the wrapper logs the release result at.
ReleaseLogLevel(ok, err) ==
    IF ~ok \/ err # "nil"
    THEN IF err = "ErrLockAlreadyExpired" THEN "warn" ELSE "error"
    ELSE "info"

\* --------------------------------------------------------------- manager

\* The callbacks handed to Register and AddTask.
Callbacks == {"f", "g"}

\* Schedule expressions handed to Register and AddTask: the one of the
\* example, which the parser of the timer engine accepts, and a malformed one.
CronSpecs == {"0/10 * * * * ?", "bad"}

\* cron.AddFunc returns an error for a malformed schedule expression.
ParseFails(spec) == spec = "bad"

\* TaskSchedule{}, the zero value.
ZeroSchedule == [spec |-> "", task |-> "nil"]

\* A map with no key.
EmptyMap == [x \in {} |-> 0]

\* What ret holds before any call.
NoRet ==
    [op |-> "none", node |-> "", name |-> "", spec |-> "", task |-> "nil",
     err |-> "nil", order |-> <<>>, found |-> FALSE, value |-> ZeroSchedule]

\* The manager NewDistributedTaskManager returns: the timer engine is not
\* running and has no entry, ctx is live, the Redis client is connected.
\*   running    the timer engine is dispatching (cron.Start .. cron.Stop)
\*   stopping   Stop() waits for the context cron.Stop() returned
\*   cancelled  dtm.cancel() has been called
\*   closed     dtm.redisClient.Close() has been called
\*   entries    the wrappedTasks added to the timer engine, in order
\*   pending    the invocations in flight when cron.Stop() was last called
NewMgr ==
    [running |-> FALSE, stopping |-> FALSE, cancelled |-> FALSE,
     closed |-> FALSE, entries |-> <<>>, pending |-> 0]

\* The wrappedTask closure of addDistributedTask(name, spec, task).
Entry(name, task) == [name |-> name, task |-> task]

\* The timer engine of node n has an entry that runs the task called name.
HasEntry(n, name) ==
    \E x \in 1 .. Len(mgr[n].entries) : mgr[n].entries[x].name = name

\* The entries of node n that are due at firing k.
Due(n, k) ==
    {x \in 1 .. Len(mgr[n].entries) : mgr[n].entries[x].name = schedule[k]}

\* A manager with one entry for sync and one for mail, after Start().
StartedMgr ==
    [NewMgr EXCEPT !.running = TRUE,
                   !.entries = <<Entry("sync", "f"), Entry("mail", "g")>>]

\* Can the Redis client of the node of invocation i reach the store?  Not
\* once it is closed; before that the network decides.
Reach(i) == IF mgr[i[1]].closed THEN {FALSE} ELSE BOOLEAN

\* No call of a scheduler or of the manager API has been made.
NoCalls ==
    /\ tasks = EmptyMap
    /\ lastReg = EmptyMap
    /\ ret = NoRet

\* ------------------------------------------------------------------ Init

Init ==
    /\ schedule \in [Firings -> TaskNames]
    /\ schedule[1] = "sync"
    /\ now = 0
    /\ store = [k \in Keys |-> [val |-> NoToken, exp |-> 0]]
    /\ inv = [i \in Ids |-> Fresh]
    /\ mgr = [n \in Nodes |-> StartedMgr]
    /\ NoCalls

\* --------------------------------------------------------------- actions

\* The timer engine of node f[1] reaches firing f[2] and dispatches the
\* wrappedTask of every due entry, each as its own unit of execution.
Fire(f) ==
    /\ mgr[f[1]].running
    /\ HasEntry(f[1], schedule[f[2]])
    /\ \A x \in Slots : inv[<<f[1], f[2], x>>].pc = "idle"
    /\ IF f[2] = 1 THEN TRUE
       ELSE \E x \in Slots : inv[<<f[1], f[2] - 1, x>>].pc # "idle"
    /\ Cardinality({j \in Ids : inv[j].pc # "idle"}) + Cardinality(Due(f[1], f[2]))
          <= MaxInvocations
    /\ inv' = [i \in Ids |->
                 IF i[1] = f[1] /\ i[2] = f[2] /\ i[3] \in Due(f[1], f[2])
                 THEN [inv[i] EXCEPT !.pc = "acquire"]
                 ELSE inv[i]]
    /\ UNCHANGED <<schedule, now, store, mgrVars>>

\* A wrapper that returns only on ErrFailed and goes on to the task on any
\* other error of TryLock.
TryLockRunsOnStoreError(i) ==
    /\ inv[i].pc = "acquire"
    /\ \E reachable \in Reach(i) :
        LET e == MutexTryLock(KeyOf(i), reachable) IN
        IF e # "ErrFailed"
        THEN /\ store' = IF e = "nil" THEN StoreAfterSet(KeyOf(i), TokenOf(i))
                         ELSE store
             /\ inv' = [inv EXCEPT ![i] = [@ EXCEPT !.pc = "callback",
                                                   !.err = e,
                                                   !.until = IF e = "nil"
                                                             THEN now + Expiry
                                                             ELSE 0,
                                                   !.tries = @ + 1,
                                                   !.runs = @ + 1]]
        ELSE /\ store' = store
             /\ inv' = [inv EXCEPT ![i] = [@ EXCEPT !.pc = "returned",
                                                   !.err = e,
                                                   !.tries = @ + 1]]
    /\ UNCHANGED <<schedule, now, mgrVars>>

\* A wrapper that tries again when the key is taken (mutex.Lock()).
TryLockRetries(i) ==
    /\ inv[i].pc = "acquire"
    /\ \E reachable \in Reach(i) :
        LET e == MutexTryLock(KeyOf(i), reachable) IN
        IF e = "nil"
        THEN /\ store' = StoreAfterSet(KeyOf(i), TokenOf(i))
             /\ inv' = [inv EXCEPT ![i] = [@ EXCEPT !.pc = "callback",
                                                   !.err = e,
                                                   !.until = now + Expiry,
                                                   !.tries = @ + 1,
                                                   !.runs = @ + 1]]
        ELSE /\ store' = store
             /\ inv' = [inv EXCEPT ![i] =
                          [@ EXCEPT !.pc = IF e = "ErrFailed" THEN "acquire"
                                           ELSE "returned",
                                    !.err = e,
                                    !.tries = @ + 1]]
    /\ UNCHANGED <<schedule, now, mgrVars>>

\* A wrapper whose mutex sets the key without a TTL.
TryLockNoExpiry(i) ==
    /\ inv[i].pc = "acquire"
    /\ \E reachable \in Reach(i) :
        LET e == MutexTryLock(KeyOf(i), reachable) IN
        IF e = "nil"
        THEN /\ store' = [store EXCEPT ![KeyOf(i)] =
                            [val |-> TokenOf(i), exp |-> MaxTime + Expiry + 1]]
             /\ inv' = [inv EXCEPT ![i] = [@ EXCEPT !.pc = "callback",
                                                   !.err = e,
                                                   !.until = MaxTime + Expiry + 1,
                                                   !.tries = @ + 1,
                                                   !.runs = @ + 1]]
        ELSE /\ store' = store
             /\ inv' = [inv EXCEPT ![i] = [@ EXCEPT !.pc = "returned",
                                                   !.err = e,
                                                   !.tries = @ + 1]]
    /\ UNCHANGED <<schedule, now, mgrVars>>

\* A wrapper that defers the release before it looks at the error of
\* TryLock, so that the release also runs when nothing was acquired.
TryLockDefersFirst(i) ==
    /\ inv[i].pc = "acquire"
    /\ \E reachable \in Reach(i) :
        LET e == MutexTryLock(KeyOf(i), reachable) IN
        IF e = "nil"
        THEN /\ store' = StoreAfterSet(KeyOf(i), TokenOf(i))
             /\ inv' = [inv EXCEPT ![i] = [@ EXCEPT !.pc = "callback",
                                                   !.err = e,
                                                   !.until = now + Expiry,
                                                   !.tries = @ + 1,
                                                   !.runs = @ + 1]]
        ELSE /\ store' = store
             /\ inv' = [inv EXCEPT ![i] = [@ EXCEPT !.pc = "unlock",
                                                   !.err = e,
                                                   !.tries = @ + 1]]
    /\ UNCHANGED <<schedule, now, mgrVars>>

\* executeDistributedTask up to the call of the task: NewMutex, TryLock,
\* and on an error the log and the return.
TryLock(i) ==
    /\ inv[i].pc = "acquire"
    /\ \E reachable \in Reach(i) :
        LET e == MutexTryLock(KeyOf(i), reachable) IN
        IF e = "nil"
        THEN /\ store' = StoreAfterSet(KeyOf(i), TokenOf(i))
             /\ inv' = [inv EXCEPT ![i] = [@ EXCEPT !.pc = "callback",
                                                   !.err = e,
                                                   !.until = now + Expiry,
                                                   !.tries = @ + 1,
                                                   !.runs = @ + 1]]
        ELSE /\ store' = store
             /\ inv' = [inv EXCEPT ![i] = [@ EXCEPT !.pc = "returned",
                                                   !.err = e,
                                                   !.tries = @ + 1]]
    /\ UNCHANGED <<schedule, now, mgrVars>>

\* task() returns; the deferred release is next.
TaskReturn(i) ==
    /\ inv[i].pc = "callback"
    /\ inv' = [inv EXCEPT ![i] = [@ EXCEPT !.pc = "unlock", !.done = TRUE]]
    /\ UNCHANGED <<schedule, now, store, mgrVars>>

\* A wrapper whose release is not deferred: a panic of the task skips it.
TaskPanicNoDefer(i) ==
    /\ inv[i].pc = "callback"
    /\ inv' = [inv EXCEPT ![i] = [@ EXCEPT !.pc = "panicked", !.done = TRUE,
                                          !.panicking = TRUE]]
    /\ UNCHANGED <<schedule, now, store, mgrVars>>

\* task() panics; the deferred release runs while the panic unwinds.
TaskPanic(i) ==
    /\ inv[i].pc = "callback"
    /\ inv' = [inv EXCEPT ![i] = [@ EXCEPT !.pc = "unlock", !.done = TRUE,
                                          !.panicking = TRUE]]
    /\ UNCHANGED <<schedule, now, store, mgrVars>>

\* The deferred func: mutex.Unlock() and the log of its result; then the
\* wrapper returns, or the panic goes on to the timer engine.
Unlock(i) ==
    /\ inv[i].pc = "unlock"
    /\ \E reachable \in Reach(i) :
        LET r == MutexUnlock(KeyOf(i), TokenOf(i), reachable) IN
        /\ store' = IF reachable THEN StoreAfterRelease(KeyOf(i), TokenOf(i))
                    ELSE store
        /\ inv' = [inv EXCEPT ![i] =
                     [@ EXCEPT !.pc = IF inv[i].panicking THEN "panicked" ELSE "returned",
                               !.ok = r.ok,
                               !.uerr = r.err,
                               !.seen = IF reachable THEN store[KeyOf(i)].val
                                        ELSE NoToken,
                               !.unlocks = @ + 1,
                               !.until = IF r.ok THEN 0 ELSE @]]
    /\ UNCHANGED <<schedule, now, mgrVars>>

\* Time passes at the lock store; values whose TTL has elapsed disappear,
\* and a lease that has reached acquireTime + TTL is over for its holder.
Tick ==
    /\ now < MaxTime
    /\ now' = now + 1
    /\ store' = [k \in Keys |->
                   IF store[k].val # NoToken /\ store[k].exp <= now + 1
                   THEN [val |-> NoToken, exp |-> 0]
                   ELSE store[k]]
    /\ inv' = [i \in Ids |->
                 IF inv[i].until # 0 /\ inv[i].until <= now + 1
                 THEN [inv[i] EXCEPT !.until = 0]
                 ELSE inv[i]]
    /\ UNCHANGED <<schedule, mgrVars>>

Next ==
    \/ \E f \in Dispatches : Fire(f)
    \/ \E i \in Ids : TryLock(i)
    \/ \E i \in Ids : TaskReturn(i)
    \/ \E i \in Ids : TaskPanic(i)
    \/ \E i \in Ids : Unlock(i)
    \/ Tick

Spec == Init /\ [][Next]_vars

\* ------------------------------------------------------------------ leases

\* Invocation i acquired a lease that is neither released nor at its TTL.
LiveLease(i) ==
    /\ inv[i].err = "nil"
    /\ ~(inv[i].unlocks > 0 /\ ReleaseOutcome(inv[i].ok, inv[i].uerr) = "released")
    /\ inv[i].until > now

\* Invocation i acquired a lease that reached its TTL without a release.
ExpiredUnreleased(i) ==
    /\ inv[i].err = "nil"
    /\ ~(inv[i].unlocks > 0 /\ ReleaseOutcome(inv[i].ok, inv[i].uerr) = "released")
    /\ inv[i].until = 0

\* What the wrapper of i has observed of its acquire attempt, once made.
Observed(i) ==
    IF inv[i].tries = 0 THEN "none" ELSE AcquireOutcome(inv[i].err)

\* The lease key of the claims: lockKeyPrefix + taskName.
ResourceKey(i) == Prefix \o schedule[i[2]]

\* --------------------------------------------------------------------- C1

\* C1: in every reachable state, for every resource key, at most one
\* acquisition holds a lease that is neither released nor expired.
C1_AtMostOneLiveLease ==
    \A i \in Ids :
        LiveLease(i) =>
            \A j \in Ids :
                (i # j /\ ResourceKey(i) = ResourceKey(j)) => ~LiveLease(j)

\* A second holder has a live lease on the key of a first holder whose lease
\* expired while its task is still running.
C1_Witness ==
    \E i, j \in Ids :
        /\ i # j
        /\ ResourceKey(i) = ResourceKey(j)
        /\ ExpiredUnreleased(i)
        /\ inv[i].pc = "callback"
        /\ LiveLease(j)

\* --------------------------------------------------------------------- C2

\* C2: for every firing, the task callback is executed on at most one node
\* of the cluster.
C2_OneNodePerFiring ==
    \A k \in Firings :
        Cardinality({n \in Nodes :
                        \E x \in Slots : inv[<<n, k, x>>].runs > 0}) <= 1

\* --------------------------------------------------------------------- C3

\* C3: at no instant are two instances of the same task's callback running
\* at the same time anywhere in the cluster.
C3_NoTwoCallbacksAtOnce ==
    \A i, j \in Ids :
        (i # j /\ TaskOf(i) = TaskOf(j))
            => ~(inv[i].pc = "callback" /\ inv[j].pc = "callback")

\* --------------------------------------------------------------------- C4

\* Two wrapper invocations for the same key, on two nodes, both dispatched
\* and about to acquire, with the key free.
PairIds == {<<"A", 1, 1>>, <<"B", 1, 1>>}

InitPair ==
    /\ schedule \in [Firings -> TaskNames]
    /\ schedule[1] = "sync"
    /\ now = 0
    /\ store = [k \in Keys |-> [val |-> NoToken, exp |-> 0]]
    /\ inv = [i \in Ids |->
                IF i \in PairIds THEN [Fresh EXCEPT !.pc = "acquire"] ELSE Fresh]
    /\ mgr = [n \in Nodes |-> StartedMgr]
    /\ NoCalls

NextPair ==
    \/ \E i \in PairIds : TryLock(i)
    \/ \E i \in PairIds : TaskReturn(i)
    \/ \E i \in PairIds : TaskPanic(i)
    \/ \E i \in PairIds : Unlock(i)
    \/ Tick

SpecPair == InitPair /\ [][NextPair]_vars

\* The wrapper of j has made its acquire attempt in this step.
AcquireStep(j) == inv[j].pc = "acquire" /\ inv'[j].pc # "acquire"

\* Another invocation holds a live lease on the key of j.
HeldByOther(j) ==
    \E i \in Ids : i # j /\ ResourceKey(i) = ResourceKey(j) /\ LiveLease(i)

UnlockStep(i) == inv[i].pc = "unlock" /\ inv'[i].pc # "unlock"

\* C5: a release with a token other than the one stored under the key
\* leaves the store as it is.
C5_MismatchedReleaseKeepsValue ==
    [][\A i \in Ids :
         (UnlockStep(i) /\ store[KeyOf(i)].val # TokenOf(i)) => store' = store]_vars

\* A previous holder has made its late release while the task of the new
\* holder runs, and the key still holds the new holder's token.
C5_Witness ==
    \E i, j \in Ids :
        /\ i # j
        /\ KeyOf(i) = KeyOf(j)
        /\ inv[i].unlocks = 1
        /\ inv[i].seen = TokenOf(j)
        /\ inv[j].pc = "callback"
        /\ store[KeyOf(j)].val = TokenOf(j)

\* --------------------------------------------------------------------- C6

\* C6: the release of a lease that reached its TTL is never reported as
\* released, and with the store reachable it is reported as alreadyExpired,
\* be the key absent or held under another token.
C6_LateReleaseAlreadyExpired ==
    [][\A i \in Ids :
         (UnlockStep(i) /\ ExpiredUnreleased(i)) =>
             LET o == ReleaseOutcome(inv'[i].ok, inv'[i].uerr) IN
             /\ o # "released"
             /\ inv'[i].uerr # "RedisError" => o = "alreadyExpired"]_vars

\* The lease of i expired, an invocation on another node acquired the key,
\* and the release of i was then reported as alreadyExpired.
C6_Witness ==
    \E i, j \in Ids :
        /\ i[1] # j[1]
        /\ KeyOf(i) = KeyOf(j)
        /\ inv[i].pc = "returned"
        /\ inv[i].unlocks = 1
        /\ ReleaseOutcome(inv[i].ok, inv[i].uerr) = "alreadyExpired"
        /\ inv[i].seen = TokenOf(j)
        /\ LiveLease(j)

\* --------------------------------------------------------------------- C7

\* The wrapper of i has left executeDistributedTask.
Exited(i) == inv[i].pc \in {"returned", "panicked"}

\* C7: after a successful acquire the release is attempted exactly once on
\* every exit path, normal return or panic, and only after the task has
\* finished.
C7_ReleaseOnceAfterCallback ==
    \A i \in Ids :
        /\ inv[i].unlocks <= 1
        /\ (Exited(i) /\ inv[i].err = "nil") => inv[i].unlocks = 1
        /\ inv[i].unlocks = 1 => (inv[i].done /\ inv[i].err = "nil")
        /\ inv[i].pc = "callback" => inv[i].unlocks = 0

\* A task that panicked: its lease was released on the way out.
C7_Witness ==
    \E i \in Ids :
        /\ inv[i].pc = "panicked"
        /\ inv[i].unlocks = 1
        /\ ReleaseOutcome(inv[i].ok, inv[i].uerr) = "released"

\* --------------------------------------------------------------------- C8

\* C8: the task is called only after the invocation's own acquire has
\* succeeded; when the acquire fails, as contended or with a store error,
\* the task is not run, no release is attempted, and the wrapper returns
\* without a panic and without a fatal log.
C8_NoCallbackWithoutLease ==
    \A i \in Ids :
        /\ inv[i].runs > 0 => (inv[i].err = "nil" /\ inv[i].tries = 1)
        /\ Observed(i) \in {"contended", "storeUnavailable"}
               => /\ inv[i].pc = "returned"
                  /\ inv[i].runs = 0
                  /\ inv[i].unlocks = 0
                  /\ ~inv[i].done
                  /\ AcquireLogLevel(inv[i].err) # "fatal"

\* An invocation has skipped its firing on a store error, with the key
\* free, while the invocation before it had run the task under its lease.
C8_Witness ==
    \E i, j \in Ids :
        /\ i # j
        /\ KeyOf(i) = KeyOf(j)
        /\ inv[i].pc = "returned" /\ inv[i].runs = 1
        /\ inv[j].pc = "returned" /\ Observed(j) = "storeUnavailable"
        /\ inv[j].runs = 0
        /\ KeyFree(KeyOf(j))

\* --------------------------------------------------------------------- C9

\* C9: each firing makes exactly one acquire attempt and does not wait: an
\* invocation that has made its attempt is past the acquire, and a loser
\* has returned.
C9_SingleAttemptNoWait ==
    \A i \in Ids :
        /\ inv[i].tries <= 1
        /\ inv[i].pc = "acquire" => inv[i].tries = 0
        /\ inv[i].pc \notin {"idle", "acquire"} => inv[i].tries = 1
        /\ Observed(i) = "contended" => inv[i].pc = "returned"

\* The loser has returned while the holder, on another node, still runs the
\* task under its unexpired lease.
C9_Witness ==
    \E i, j \in Ids :
        /\ i[1] # j[1]
        /\ KeyOf(i) = KeyOf(j)
        /\ inv[i].pc = "callback"
        /\ LiveLease(i)
        /\ inv[j].pc = "returned"
        /\ inv[j].tries = 1
        /\ Observed(j) = "contended"

\* -------------------------------------------------------------------- C10

\* C10: a firing whose acquire fails is retried before it is given up.
C10_RetriedBeforeGivenUp ==
    \A i \in Ids :
        (inv[i].pc = "returned" /\ Observed(i) \in {"contended", "storeUnavailable"})
            => inv[i].tries > 1

\* -------------------------------------------------------------------- C11

\* The release of invocation i was reported as released.
Released(i) ==
    inv[i].unlocks > 0 /\ ReleaseOutcome(inv[i].ok, inv[i].uerr) = "released"

\* C11: once a lease on the key of j has been released and no later lease
\* on it is held, the next acquire that reaches the store succeeds in that
\* very step, whatever the clock says and whichever node makes it, and the
\* key then holds the token of j, which no earlier acquire has used.
C11_ReleasedLeaseReacquiredAtOnce ==
    [][\A j \in Ids :
         (/\ AcquireStep(j)
          /\ \E i \in Ids : i # j /\ KeyOf(i) = KeyOf(j) /\ Released(i)
          /\ ~HeldByOther(j)
          /\ inv'[j].err # "RedisError")
         => /\ AcquireOutcome(inv'[j].err) = "acquired"
            /\ inv'[j].pc = "callback"
            /\ now' = now
            /\ store'[KeyOf(j)].val = TokenOf(j)
            /\ \A h \in Ids :
                  (h # j /\ inv[h].tries > 0) => TokenOf(h) # store'[KeyOf(j)].val]_vars

\* The node that released the lease before its TTL was over has taken it
\* again at the same clock value and runs the task under the new lease.
C11_Witness ==
    \E i, j \in Ids :
        /\ i # j
        /\ i[1] = j[1]
        /\ KeyOf(i) = KeyOf(j)
        /\ Released(i)
        /\ now < Expiry
        /\ inv[j].pc = "callback"
        /\ LiveLease(j)
        /\ inv[j].until = now + Expiry
        /\ store[KeyOf(j)].val = TokenOf(j)

\* -------------------------------------------------------------------- C12

\* C12: the deferred release logs its result by kind: released at info,
\* alreadyExpired at warn, releaseFailed at error; with the store reachable
\* a release that finds the key absent or under another token is
\* alreadyExpired and logged at warn, never at error; a store error is
\* releaseFailed.
C12_ReleaseLoggedByKind ==
    [][\A i \in Ids :
         UnlockStep(i) =>
             LET o   == ReleaseOutcome(inv'[i].ok, inv'[i].uerr)
                 lvl == ReleaseLogLevel(inv'[i].ok, inv'[i].uerr)
             IN  /\ o = "released" => lvl = "info"
                 /\ o = "alreadyExpired" => lvl = "warn"
                 /\ o = "releaseFailed" => lvl = "error"
                 /\ inv'[i].uerr = "RedisError" => o = "releaseFailed"
                 /\ (inv'[i].uerr # "RedisError" /\ store[KeyOf(i)].val = TokenOf(i))
                        => o = "released"
                 /\ (inv'[i].uerr # "RedisError" /\ store[KeyOf(i)].val # TokenOf(i))
                        => (o = "alreadyExpired" /\ lvl = "warn")]_vars

\* A release has found the token of an invocation of another node under
\* its key and was logged at warn.
C12_Witness ==
    \E i, j \in Ids :
        /\ i[1] # j[1]
        /\ KeyOf(i) = KeyOf(j)
        /\ inv[i].unlocks = 1
        /\ inv[i].seen = TokenOf(j)
        /\ ReleaseLogLevel(inv[i].ok, inv[i].uerr) = "warn"

\* -------------------------------------------------------------------- C19

\* C19: a firing dispatched on a node while an earlier invocation of the
\* same task on that node holds its unexpired lease runs beside it; its
\* acquire, when it reaches the store, observes contended and leaves the
\* store and the earlier invocation as they are; an invocation that
\* observed contended has returned without the task and without a release.
C19_OverlapOnNodeSkips ==
    /\ [](\A j \in Ids :
            Observed(j) = "contended" =>
                /\ inv[j].pc = "returned"
                /\ inv[j].runs = 0
                /\ inv[j].unlocks = 0)
    /\ [][\A j \in Ids :
            (AcquireStep(j) /\ inv'[j].err # "RedisError") =>
                \A i \in Ids :
                    (/\ i # j
                     /\ i[1] = j[1]
                     /\ KeyOf(i) = KeyOf(j)
                     /\ LiveLease(i)
                     /\ inv[i].pc \in {"callback", "unlock"})
                    => /\ AcquireOutcome(inv'[j].err) = "contended"
                       /\ store' = store
                       /\ inv'[i] = inv[i]]_vars

\* On one node the first invocation runs the task under its live lease and
\* the second has observed contended and returned.
C19_Witness ==
    \E i, j \in Ids :
        /\ i # j
        /\ i[1] = j[1]
        /\ KeyOf(i) = KeyOf(j)
        /\ inv[i].pc = "callback"
        /\ LiveLease(i)
        /\ store[KeyOf(i)].val = TokenOf(i)
        /\ Observed(j) = "contended"
        /\ inv[j].pc = "returned"

\* -------------------------------------------------------------------- C18

\* The process of node n dies: its timer engine dispatches nothing more,
\* its connection is gone, and its wrapper invocations in flight stop where
\* they are, deferred releases included.
Crash(n) ==
    /\ mgr[n].running
    /\ mgr' = [mgr EXCEPT ![n] = [@ EXCEPT !.running = FALSE, !.closed = TRUE]]
    /\ inv' = [i \in Ids |->
                 IF i[1] = n /\ inv[i].pc \in {"acquire", "callback", "unlock"}
                 THEN [inv[i] EXCEPT !.pc = "crashed"]
                 ELSE inv[i]]
    /\ UNCHANGED <<schedule, now, store, tasks, lastReg, ret>>

\* Firing 1 on the two nodes, with crashes.
NextLive ==
    \/ \E n \in Nodes : Fire(<<n, 1>>)
    \/ \E i \in PairIds : TryLock(i)
    \/ \E i \in PairIds : TaskReturn(i)
    \/ \E i \in PairIds : TaskPanic(i)
    \/ \E i \in PairIds : Unlock(i)
    \/ \E n \in Nodes : Crash(n)
    \/ Tick

\* The clock of the lock store keeps advancing.
SpecLive == Init /\ [][NextLive]_vars /\ WF_vars(Tick)

\* The key still holds the token of i although i will not release it: its
\* process crashed, or its release failed with a store error.
Stuck(i) ==
    /\ inv[i].err = "nil"
    /\ store[KeyOf(i)].val = TokenOf(i)
    /\ \/ inv[i].pc = "crashed"
       \/ /\ inv[i].unlocks > 0
          /\ ReleaseOutcome(inv[i].ok, inv[i].uerr) = "releaseFailed"

\* C18: a lease whose holder crashed or whose release failed with a store
\* error does not stay: with a TTL of clock left it is gone from the store
\* in the end, and an acquire of the same task that reaches the store once
\* it has expired succeeds and runs the task.
C18_LeaseNeverHeldForever ==
    /\ \A i \in Ids :
          (Stuck(i) /\ now + Expiry <= MaxTime) ~> (store[KeyOf(i)].val # TokenOf(i))
    /\ [][\A j \in Ids :
            (/\ AcquireStep(j)
             /\ inv'[j].tries = inv[j].tries + 1
             /\ \E i \in Ids :
                   /\ i # j
                   /\ KeyOf(i) = KeyOf(j)
                   /\ ExpiredUnreleased(i)
                   /\ \/ inv[i].pc = "crashed"
                      \/ ReleaseOutcome(inv[i].ok, inv[i].uerr) = "releaseFailed"
             /\ ~HeldByOther(j)
             /\ inv'[j].err # "RedisError")
            => /\ AcquireOutcome(inv'[j].err) = "acquired"
               /\ inv'[j].pc = "callback"
               /\ inv'[j].runs = 1]_vars

\* The holder crashed during its task, its lease expired, and a later
\* invocation of the same task runs the task under a live lease.
C18_Witness ==
    \E i, j \in Ids :
        /\ i # j
        /\ KeyOf(i) = KeyOf(j)
        /\ inv[i].pc = "crashed"
        /\ inv[i].runs = 1
        /\ ExpiredUnreleased(i)
        /\ inv[j].pc = "callback"
        /\ LiveLease(j)

\* ------------------------------------------------------- manager lifecycle

\* The wrapper invocations of node n that have started and not finished.
InFlight(n) ==
    {i \in Ids : i[1] = n /\ inv[i].pc \in {"acquire", "callback", "unlock"}}

\* The context cron.Stop() returned is done: the jobs the timer engine
\* started have all returned.
Drained(n) == InFlight(n) = {}

\* An addDistributedTask that, like Register, overwrites the entry a name
\* already has.
AddTaskReplacesSameName(n, name, spec, task) ==
    /\ ~mgr[n].stopping
    /\ Len(mgr[n].entries) < MaxEntries
    /\ IF ParseFails(spec)
       THEN /\ mgr' = mgr
            /\ ret' = [NoRet EXCEPT !.op = "AddTask", !.node = n, !.name = name,
                                    !.spec = spec, !.task = task,
                                    !.err = "failed to add cron task"]
       ELSE /\ mgr' = [mgr EXCEPT ![n] =
                         [@ EXCEPT !.entries =
                            IF HasEntry(n, name)
                            THEN [x \in 1 .. Len(@) |->
                                    IF @[x].name = name THEN Entry(name, task)
                                    ELSE @[x]]
                            ELSE Append(@, Entry(name, task))]]
            /\ ret' = [NoRet EXCEPT !.op = "AddTask", !.node = n, !.name = name,
                                    !.spec = spec, !.task = task]
    /\ UNCHANGED <<schedule, now, store, inv, tasks, lastReg>>

\* An addDistributedTask that appends the entry although AddFunc failed.
AddTaskKeepsBadEntry(n, name, spec, task) ==
    /\ ~mgr[n].stopping
    /\ Len(mgr[n].entries) < MaxEntries
    /\ mgr' = [mgr EXCEPT ![n] = [@ EXCEPT !.entries = Append(@, Entry(name, task))]]
    /\ ret' = [NoRet EXCEPT !.op = "AddTask", !.node = n, !.name = name,
                            !.spec = spec, !.task = task,
                            !.err = IF ParseFails(spec)
                                    THEN "failed to add cron task" ELSE "nil"]
    /\ UNCHANGED <<schedule, now, store, inv, tasks, lastReg>>

\* AddTask(name, spec, task), that is addDistributedTask: cron.AddFunc with
\* the wrappedTask; its error is returned, otherwise the entry is added.
AddTask(n, name, spec, task) ==
    /\ ~mgr[n].stopping
    /\ Len(mgr[n].entries) < MaxEntries
    /\ IF ParseFails(spec)
       THEN /\ mgr' = mgr
            /\ ret' = [NoRet EXCEPT !.op = "AddTask", !.node = n, !.name = name,
                                    !.spec = spec, !.task = task,
                                    !.err = "failed to add cron task"]
       ELSE /\ mgr' = [mgr EXCEPT ![n] =
                         [@ EXCEPT !.entries = Append(@, Entry(name, task))]]
            /\ ret' = [NoRet EXCEPT !.op = "AddTask", !.node = n, !.name = name,
                                    !.spec = spec, !.task = task]
    /\ UNCHANGED <<schedule, now, store, inv, tasks, lastReg>>

\* Start(): cron.Start() sets the timer engine running, also after a Stop.
Start(n) ==
    /\ ~mgr[n].stopping
    /\ mgr' = [mgr EXCEPT ![n] = [@ EXCEPT !.running = TRUE]]
    /\ UNCHANGED <<schedule, now, store, inv, tasks, lastReg, ret>>

\* A Stop() that calls dtm.cancel() before it waits for the timer engine.
StopBeginCancelsFirst(n) ==
    /\ ~mgr[n].stopping
    /\ mgr' = [mgr EXCEPT ![n] = [@ EXCEPT !.running = FALSE,
                                          !.stopping = TRUE,
                                          !.cancelled = TRUE,
                                          !.pending = Cardinality(InFlight(n))]]
    /\ UNCHANGED <<schedule, now, store, inv, tasks, lastReg, ret>>

\* Stop() up to <-ctx.Done(): cron.Stop() ends the dispatching and returns
\* the context Stop() then waits for.
StopBegin(n) ==
    /\ ~mgr[n].stopping
    /\ mgr' = [mgr EXCEPT ![n] = [@ EXCEPT !.running = FALSE,
                                          !.stopping = TRUE,
                                          !.pending = Cardinality(InFlight(n))]]
    /\ UNCHANGED <<schedule, now, store, inv, tasks, lastReg, ret>>

\* A Stop() that does not wait for the context of cron.Stop().
StopFinishNoWait(n) ==
    /\ mgr[n].stopping
    /\ mgr' = [mgr EXCEPT ![n] = [@ EXCEPT !.stopping = FALSE,
                                          !.cancelled = TRUE,
                                          !.closed = TRUE]]
    /\ UNCHANGED <<schedule, now, store, inv, tasks, lastReg, ret>>

\* A Stop() that leaves the Redis client open.
StopFinishKeepsClient(n) ==
    /\ mgr[n].stopping
    /\ Drained(n)
    /\ mgr' = [mgr EXCEPT ![n] = [@ EXCEPT !.stopping = FALSE,
                                          !.cancelled = TRUE]]
    /\ UNCHANGED <<schedule, now, store, inv, tasks, lastReg, ret>>

\* Stop() from <-ctx.Done() on: once the context is done, dtm.cancel(),
\* then dtm.redisClient.Close(), and Stop() returns.
StopFinish(n) ==
    /\ mgr[n].stopping
    /\ Drained(n)
    /\ mgr' = [mgr EXCEPT ![n] = [@ EXCEPT !.stopping = FALSE,
                                          !.cancelled = TRUE,
                                          !.closed = TRUE]]
    /\ UNCHANGED <<schedule, now, store, inv, tasks, lastReg, ret>>

\* The node whose manager is driven through its API, from one goroutine as
\* in the example, all within one tick of the lease clock.
MgrNode == "A"

MgrIds == {i \in Ids : i[1] = MgrNode}

InitMgr ==
    /\ schedule \in [Firings -> TaskNames]
    /\ schedule[1] = "sync"
    /\ now = 0
    /\ store = [k \in Keys |-> [val |-> NoToken, exp |-> 0]]
    /\ inv = [i \in Ids |-> Fresh]
    /\ mgr = [n \in Nodes |-> NewMgr]
    /\ NoCalls

NextMgr ==
    \/ \E name \in TaskNames, spec \in CronSpecs : AddTask(MgrNode, name, spec, "f")
    \/ Start(MgrNode)
    \/ StopBegin(MgrNode)
    \/ StopFinish(MgrNode)
    \/ \E k \in Firings : Fire(<<MgrNode, k>>)
    \/ \E i \in MgrIds : TryLock(i)
    \/ \E i \in MgrIds : TaskReturn(i)
    \/ \E i \in MgrIds : TaskPanic(i)
    \/ \E i \in MgrIds : Unlock(i)

SpecMgr == InitMgr /\ [][NextMgr]_vars

\* -------------------------------------------------------------------- C13

C14_NoCallbackAfterStop ==
    [][\A i \in Ids :
         mgr[i[1]].cancelled => inv'[i].runs = inv[i].runs]_vars

\* After Stop() the manager was started again and its timer engine has
\* dispatched a wrapper, which has not run the task.
C14_Witness ==
    \E i \in Ids :
        /\ mgr[i[1]].cancelled
        /\ mgr[i[1]].running
        /\ inv[i].pc = "returned"
        /\ inv[i].tries = 1
        /\ inv[i].runs = 0
        /\ i[2] > 1
        /\ \E x \in Slots : inv[<<i[1], 1, x>>].runs = 1

\* -------------------------------------------------------------------- C16

\* C16: an AddTask with a malformed schedule expression returns an error;
\* the entries of a timer engine change only by an AddTask that returned no
\* error, which appends its one entry; and a wrapper is dispatched only for
\* a task that has an entry.
C16_MalformedAddTaskRejected ==
    /\ []((ret.op = "AddTask" /\ ParseFails(ret.spec)) => ret.err # "nil")
    /\ [][\A n \in Nodes :
            mgr'[n].entries # mgr[n].entries =>
                /\ ret'.op = "AddTask"
                /\ ret'.node = n
                /\ ret'.err = "nil"
                /\ ~ParseFails(ret'.spec)
                /\ mgr'[n].entries =
                     Append(mgr[n].entries, Entry(ret'.name, ret'.task))]_vars
    /\ [](\A i \in Ids : inv[i].pc # "idle" => HasEntry(i[1], TaskOf(i)))

\* The last AddTask had a malformed expression and returned an error; its
\* task has no entry in the running timer engine, which has dispatched the
\* wrapper of another task.
C16_Witness ==
    /\ ret.op = "AddTask"
    /\ ParseFails(ret.spec)
    /\ ret.err # "nil"
    /\ mgr[ret.node].running
    /\ ~HasEntry(ret.node, ret.name)
    /\ \E i \in Ids : i[1] = ret.node /\ inv[i].pc # "idle"

\* -------------------------------------------------------------------- C20

GetAll == tasks

\* How often name has been registered.
TimesRegistered(name) ==
    IF name \in DOMAIN lastReg THEN lastReg[name].times ELSE 0

\* A Register that keeps the schedule a name already has.
RegisterKeepsFirst(name, spec, task) ==
    /\ TimesRegistered(name) < MaxRegs
    /\ tasks' = IF name \in DOMAIN tasks THEN tasks
                ELSE [x \in DOMAIN tasks \cup {name} |->
                        IF x = name THEN [spec |-> spec, task |-> task]
                        ELSE tasks[x]]
    /\ lastReg' = [x \in DOMAIN lastReg \cup {name} |->
                     IF x = name
                     THEN [spec |-> spec, task |-> task,
                           times |-> TimesRegistered(name) + 1]
                     ELSE lastReg[x]]
    /\ UNCHANGED <<schedule, now, store, inv, mgr, ret>>

\* Register(name, cron, task): ts.tasks[name] = TaskSchedule{task, cron}.
\* lastReg records the call.
Register(name, spec, task) ==
    /\ TimesRegistered(name) < MaxRegs
    /\ tasks' = [x \in DOMAIN tasks \cup {name} |->
                   IF x = name THEN [spec |-> spec, task |-> task]
                   ELSE tasks[x]]
    /\ lastReg' = [x \in DOMAIN lastReg \cup {name} |->
                     IF x = name
                     THEN [spec |-> spec, task |-> task,
                           times |-> TimesRegistered(name) + 1]
                     ELSE lastReg[x]]
    /\ UNCHANGED <<schedule, now, store, inv, mgr, ret>>

\* Get(name): schedule, exists := ts.tasks[name].
Get(name) ==
    /\ ret' = [NoRet EXCEPT !.op = "Get", !.name = name,
                            !.found = name \in DOMAIN tasks,
                            !.value = IF name \in DOMAIN tasks THEN tasks[name]
                                      ELSE ZeroSchedule]
    /\ UNCHANGED <<schedule, now, store, inv, mgr, tasks, lastReg>>

\* The orders in which a range over a map with the keys S can visit them.
Orders(S) ==
    {o \in [1 .. Cardinality(S) -> S] :
        \A x, y \in 1 .. Cardinality(S) : x # y => o[x] # o[y]}

\* The first position of order o whose schedule expression is malformed,
\* Len(o) + 1 when there is none.
FirstBad(o) ==
    LET bad == {k \in 1 .. Len(o) : ParseFails(GetAll[o[k]].spec)} IN
    IF bad = {} THEN Len(o) + 1
    ELSE CHOOSE k \in bad : \A h \in bad : k <= h

\* The entries of o[from .. to] whose schedule expression is well-formed.
RECURSIVE GoodEntries(_, _, _)
GoodEntries(o, from, to) ==
    IF from > to THEN <<>>
    ELSE (IF ParseFails(GetAll[o[from]].spec) THEN <<>>
          ELSE <<Entry(o[from], GetAll[o[from]].task)>>)
         \o GoodEntries(o, from + 1, to)

\* An AddScheduler that goes on with the next entry after a failure and
\* returns the first error when the loop is over.
AddSchedulerGoesOn(n) ==
    /\ ~mgr[n].stopping
    /\ Len(mgr[n].entries) + Cardinality(DOMAIN GetAll) <= MaxEntries
    /\ \E o \in Orders(DOMAIN GetAll) :
        LET stop == FirstBad(o) IN
        /\ mgr' = [mgr EXCEPT ![n] =
                     [@ EXCEPT !.entries = @ \o GoodEntries(o, 1, Len(o))]]
        /\ ret' = [NoRet EXCEPT !.op = "AddScheduler", !.node = n, !.order = o,
                                !.name = IF stop > Len(o) THEN "" ELSE o[stop],
                                !.err = IF stop > Len(o) THEN "nil"
                                        ELSE "failed to add task"]
    /\ UNCHANGED <<schedule, now, store, inv, tasks, lastReg>>

\* AddScheduler(scheduler): addDistributedTask for every entry of GetAll()
\* in the order the range visits them, returning at the first error.
AddScheduler(n) ==
    /\ ~mgr[n].stopping
    /\ Len(mgr[n].entries) + Cardinality(DOMAIN GetAll) <= MaxEntries
    /\ \E o \in Orders(DOMAIN GetAll) :
        LET stop == FirstBad(o) IN
        /\ mgr' = [mgr EXCEPT ![n] =
                     [@ EXCEPT !.entries = @ \o GoodEntries(o, 1, stop - 1)]]
        /\ ret' = [NoRet EXCEPT !.op = "AddScheduler", !.node = n, !.order = o,
                                !.name = IF stop > Len(o) THEN "" ELSE o[stop],
                                !.err = IF stop > Len(o) THEN "nil"
                                        ELSE "failed to add task"]
    /\ UNCHANGED <<schedule, now, store, inv, tasks, lastReg>>

InitReg ==
    /\ schedule = [k \in Firings |-> "sync"]
    /\ now = 0
    /\ store = [k \in Keys |-> [val |-> NoToken, exp |-> 0]]
    /\ inv = [i \in Ids |-> Fresh]
    /\ mgr = [n \in Nodes |-> NewMgr]
    /\ NoCalls

NextReg ==
    \/ \E name \in TaskNames, spec \in CronSpecs, task \in Callbacks :
          Register(name, spec, task)
    \/ \E name \in TaskNames : Get(name)
    \/ AddScheduler(MgrNode)

SpecReg == InitReg /\ [][NextReg]_vars

\* -------------------------------------------------------------------- C15

\* How many entries of the sequence es run the task called name.
Count(name, es) == Cardinality({x \in 1 .. Len(es) : es[x].name = name})

\* C15: AddScheduler visits every entry of the registry once, in some
\* order; it returns an error exactly when an entry is malformed, and then
\* it has added nothing for the failing entry and for the entries after it
\* in that order; when it returns no error it has added every entry of the
\* registry once.
C15_AddSchedulerFailFast ==
    [][\A n \in Nodes :
         (/\ ret'.op = "AddScheduler"
          /\ ret'.node = n
          /\ <<ret', mgr'>> # <<ret, mgr>>)
         => LET o      == ret'.order
                before == mgr[n].entries
                after  == mgr'[n].entries
            IN  /\ Len(o) = Cardinality(DOMAIN GetAll)
                /\ {o[k] : k \in 1 .. Len(o)} = DOMAIN GetAll
                /\ (ret'.err = "nil") <=>
                      (\A name \in DOMAIN GetAll : ~ParseFails(GetAll[name].spec))
                /\ ret'.err = "nil" =>
                      /\ Len(after) = Len(before) + Len(o)
                      /\ \A name \in DOMAIN GetAll :
                            Count(name, after) = Count(name, before) + 1
                /\ ret'.err # "nil" =>
                      \E k \in 1 .. Len(o) :
                          /\ ret'.name = o[k]
                          /\ ParseFails(GetAll[o[k]].spec)
                          /\ Len(after) = Len(before) + k - 1
                          /\ \A x \in k .. Len(o) :
                                Count(o[x], after) = Count(o[x], before)]_vars

\* AddScheduler has failed on the entry it visited first; the well-formed
\* entry after it has not been added.
C15_Witness ==
    /\ ret.op = "AddScheduler"
    /\ ret.err # "nil"
    /\ Len(ret.order) = 2
    /\ ret.name = ret.order[1]
    /\ ~ParseFails(GetAll[ret.order[2]].spec)
    /\ ~HasEntry(ret.node, ret.order[2])

\* -------------------------------------------------------------------- C17

\* C17: Get(name) returns the schedule and the callback of the last
\* Register of name and true when there was one, the zero value and false
\* when there was none, and changes nothing; GetAll has exactly the names
\* registered so far, each with its last registration.
C17_GetReturnsLastRegistered ==
    /\ [][(ret'.op = "Get" /\ ret' # ret) =>
            /\ tasks' = tasks
            /\ mgr' = mgr
            /\ IF ret'.name \in DOMAIN lastReg
               THEN /\ ret'.found
                    /\ ret'.value = [spec |-> lastReg[ret'.name].spec,
                                     task |-> lastReg[ret'.name].task]
               ELSE /\ ~ret'.found
                    /\ ret'.value = ZeroSchedule]_vars
    /\ [](/\ DOMAIN GetAll = DOMAIN lastReg
          /\ \A name \in DOMAIN GetAll :
                /\ GetAll[name].spec = lastReg[name].spec
                /\ GetAll[name].task = lastReg[name].task)

\* Get has returned the second registration of a name.
C17_Witness ==
    /\ ret.op = "Get"
    /\ ret.found
    /\ TimesRegistered(ret.name) = 2
    /\ ret.value.task = lastReg[ret.name].task
    /\ ret.value.spec = lastReg[ret.name].spec

\* -------------------------------------------------------------------- C21

\* The invocations the timer engine of node n dispatches in this step for
\* firing k.
Dispatched(n, k) ==
    {i \in Ids : /\ i[1] = n
                 /\ i[2] = k
                 /\ inv[i].pc = "idle"
                 /\ inv'[i].pc = "acquire"}

\* C21: an AddTask that returns no error appends one entry to the entries
\* of its timer engine; entries are never replaced or removed; and a firing
\* dispatches one wrapper invocation for every entry of the due task, all
\* for the same lock name, so two after two AddTask calls with one name.
C21_AddTaskAppendsOneEntry ==
    /\ [][\A n \in Nodes :
            (/\ ret'.op = "AddTask"
             /\ ret'.node = n
             /\ ret'.err = "nil"
             /\ <<ret', mgr'[n].entries>> # <<ret, mgr[n].entries>>)
            => mgr'[n].entries =
                 Append(mgr[n].entries, Entry(ret'.name, ret'.task))]_vars
    /\ [][\A n \in Nodes :
            /\ Len(mgr'[n].entries) >= Len(mgr[n].entries)
            /\ SubSeq(mgr'[n].entries, 1, Len(mgr[n].entries)) = mgr[n].entries]_vars
    /\ [][\A f \in Dispatches :
            Dispatched(f[1], f[2]) # {} =>
                /\ Cardinality(Dispatched(f[1], f[2])) =
                     Count(schedule[f[2]], mgr[f[1]].entries)
                /\ \A i \in Dispatched(f[1], f[2]) :
                      KeyOf(i) = LockName(schedule[f[2]])]_vars

\* After two AddTask calls with one name, one firing has dispatched two
\* invocations on the node; one runs the task and the other has observed
\* contended.
C21_Witness ==
    \E i, j \in Ids :
        /\ i # j
        /\ i[1] = j[1]
        /\ i[2] = j[2]
        /\ Count(TaskOf(i), mgr[i[1]].entries) = 2
        /\ KeyOf(i) = KeyOf(j)
        /\ inv[i].pc = "callback"
        /\ Observed(j) = "contended"

====
